---- MODULE Spec2Model ----
(***************************************************************************)
(* Training-job lifecycle of the ML platform backend: the Redis job store  *)
(* (status key, pause/cancel flags, pub/sub channel), the Celery task      *)
(* (train_model_task) and the FastAPI control endpoints (train, pause,     *)
(* resume, stop) for one job.  Every Redis or broker call is one step, so  *)
(* the endpoints and the task interleave exactly where the processes can.  *)
(* GatewaySpec runs one WebSocket session (websocket_endpoint) against the *)
(* job's record and channel; MultiSpec runs the operations of several jobs *)
(* against the one keyspace they share; EpochsSpec applies                 *)
(* calculate_epochs to sizes around its thresholds.                        *)
(***************************************************************************)
EXTENDS Integers, Sequences, FiniteSets, TLC

\* Largest epoch count a request may ask for (model_config["epochs"]).
MaxEpochs == 2

\* Control requests against the job: one is in flight at a time and races
\* with the task and with POST /train.
Clients == {"c1"}

\* The Celery task id returned by train_model_task.delay().
TaskId == "t1"

\* redis GET on a missing key.
NoRec == [status |-> "none"]

Terminal == {"completed", "failed", "cancelled"}
NonTerminal == {"accepted", "running", "paused"}

Has(r, k) == k \in DOMAIN r

VARIABLES
    job_status,        \* value of key job_status:{job_id}, or NoRec
    status_ttl,        \* TRUE when the status key carries an expiry
    job_pause,         \* key job_pause:{job_id} = "true"
    job_cancel,        \* key job_cancel:{job_id} = "true"
    terminal_event,    \* the complete / error event published on job_{job_id}
    task,              \* state of the Celery task message
    revoked,           \* task id is in the workers' revoked set
    create_pc,         \* position of the POST /train request
    pc,                \* position of train_model_task
    hp_ret,            \* call site of handle_pause
    total_epochs,      \* total_epochs of the run
    epoch,             \* loop variable of the epoch loop
    training_history,  \* the task's local training_history list
    error_msg,         \* str(e) of the exception being handled
    artifact,          \* models/{job_id}_model.pkl exists
    cpc,               \* position of each control request
    job_data,          \* job_data local of each control request
    stored,            \* the terminal status the task has written to the store
    cancel_seen,       \* checkpoint at which check_cancellation returned True
    stop_ok,           \* a stop request on a non-terminal job has returned 200
    gw_pc,             \* position of the websocket_endpoint coroutine
    frames,            \* frames the gateway has sent to the client
    subscribed,        \* the gateway's pubsub is subscribed to job_{job_id}
    ws_state,          \* server side of the websocket: none, open, closed
    ws_alive,          \* the client is still connected (a send succeeds)
    pending,           \* channel messages waiting in the gateway's pubsub
    polled,            \* what the last get_message returned: none, message
    elapsed,           \* whole seconds since last_ping
    gw_store_ok,       \* no Redis call of the session has failed
    message,           \* the gateway's local message, as get_message returned it
    published,         \* every publish so far: channel and the event passed
    heard,             \* the publishes Redis handed to the session's pubsub
    snap_at,           \* number of publishes when the session read the status
    kv,                \* the Redis keyspace shared by all jobs: key -> string
    expiring,          \* keys that carry an expiry
    inbox,             \* messages delivered to the gateway session of each job
    now_ms,            \* int(datetime.now().timestamp() * 1000)
    issued,            \* job ids returned by the successful POST /train calls
    actor,             \* job id the last operation was performed for
    last_op,           \* the last operation on the keyspace
    ce_in,             \* arguments of a calculate_epochs call
    ce_out             \* value the call returned, 0 before it returns

vars == <<job_status, status_ttl, job_pause, job_cancel, terminal_event,
          task, revoked, create_pc, pc, hp_ret, total_epochs, epoch,
          training_history, error_msg, artifact, cpc, job_data, stored,
          cancel_seen, stop_ok, gw_pc, frames, subscribed, ws_state,
          ws_alive, pending, polled, elapsed, gw_store_ok, kv, expiring,
          inbox, now_ms, issued, actor, last_op, ce_in, ce_out, message,
          published, heard, snap_at>>

storeVars == <<job_status, status_ttl, job_pause, job_cancel>>
runnerVars == <<pc, hp_ret, total_epochs, epoch, training_history, error_msg,
                artifact, stored, cancel_seen>>
chanVars == <<terminal_event>>
clientVars == <<cpc, job_data, stop_ok>>
gwLog == <<message, published, heard, snap_at>>
gwVars == <<gw_pc, frames, subscribed, ws_state, ws_alive, pending, polled,
            elapsed, gw_store_ok, gwLog>>
mjVars == <<kv, expiring, inbox, now_ms, issued, actor, last_op>>
ceVars == <<ce_in, ce_out>>
auxVars == <<gwVars, mjVars, ceVars>>

\* Clock values of the shared keyspace model.
MaxTick == 1

\* job_id = f"job_{int(datetime.now().timestamp()*1000)}"
JobId(t) == <<"job_", t>>

JobIds == {JobId(t) : t \in 0..MaxTick}

\* No operation has been performed yet.
NoJob == JobId(-1)

\* An empty keyspace, no job created.
MjIdle ==
    /\ kv = << >>
    /\ expiring = {}
    /\ inbox = [j \in JobIds |-> 0]
    /\ now_ms = 0
    /\ issued = << >>
    /\ actor = NoJob
    /\ last_op = [op |-> "none"]

\* model_config.get("epochs"): absent, or the integer the caller sent.
NoEpochs == [given |-> FALSE, value |-> 0]

\* No calculate_epochs call is under way.
CeIdle ==
    /\ ce_in = [dataset_size |-> 0, user_epochs |-> NoEpochs]
    /\ ce_out = 0

\* message = None
NoMessage == [channel |-> << >>, data |-> << >>]

\* The gateway before a connection is opened.
GwIdle ==
    /\ gw_pc = "none"
    /\ frames = << >>
    /\ subscribed = FALSE
    /\ ws_state = "none"
    /\ ws_alive = TRUE
    /\ pending = << >>
    /\ message = NoMessage
    /\ published = << >>
    /\ heard = << >>
    /\ snap_at = -1
    /\ polled = "none"
    /\ elapsed = 0
    /\ gw_store_ok = TRUE

Init ==
    /\ GwIdle
    /\ MjIdle
    /\ CeIdle
    /\ job_status = NoRec
    /\ status_ttl = FALSE
    /\ job_pause = FALSE
    /\ job_cancel = FALSE
    /\ terminal_event = [type |-> "none", detail |-> ""]
    /\ task = "none"
    /\ revoked = FALSE
    /\ create_pc = "start"
    /\ pc = "none"
    /\ hp_ret = "none"
    /\ total_epochs = 0
    /\ epoch = 0
    /\ training_history = << >>
    /\ error_msg = ""
    /\ artifact = FALSE
    /\ cpc = [c \in Clients |-> "idle"]
    /\ job_data = [c \in Clients |-> NoRec]
    /\ stored = "none"
    /\ cancel_seen = "none"
    /\ stop_ok = FALSE

----
\* Events on the channel.
Event(t, d) == [type |-> t, detail |-> d]

\* update_job_status: SETEX with a one hour expiry; every failure is logged
\* and swallowed (ok = FALSE).
update_job_status(data, ok) ==
    IF ok
    THEN /\ job_status' = data
         /\ status_ttl' = TRUE
         /\ stored' = IF data.status \in Terminal THEN data.status ELSE stored
    ELSE UNCHANGED <<job_status, status_ttl, stored>>

\* publish_update: PUBLISH; every failure is logged and swallowed.  Redis
\* keeps nothing of a published message; the model remembers the terminal
\* (complete / error) event that went out.
publish_update(ev, ok) ==
    terminal_event' = IF ok /\ ev.type \in {"complete", "error"}
                      THEN ev ELSE terminal_event

\* check_cancellation: the values the call can return.  The flag read is
\* skipped when Redis is unreachable (no endpoint and no task sets the flag);
\* request.is_aborted / request.revoked are supplied by the worker and can
\* only be set for a revoked task.
check_cancellation ==
    LET flag == IF job_cancel THEN {TRUE, FALSE} ELSE {FALSE}
        aborted == IF revoked THEN {TRUE, FALSE} ELSE {FALSE}
    IN  {f \/ a : f \in flag, a \in aborted}

\* progress = 30 + int((epoch + 1) / total_epochs * 50), e = epoch + 1
Progress(e, total) == 30 + ((e * 50) \div total)

----
\* POST /train (train_model)

\* train_model that submits the task before it looks at the dataset path.
CreateValidate_SubmitFirst ==
    /\ create_pc = "start"
    /\ \E redis_up \in BOOLEAN, exists \in BOOLEAN :
         /\ create_pc' = IF ~redis_up THEN "rejected503"
                         ELSE IF ~exists THEN "rejected404"
                         ELSE "set"
         /\ task' = IF redis_up THEN "queued" ELSE task
    /\ UNCHANGED <<auxVars, storeVars, chanVars, revoked, runnerVars, clientVars>>

\* Redis client available and Path(dataset_path).exists(), else 503 / 404.
CreateValidate ==
    /\ create_pc = "start"
    /\ \E redis_up \in BOOLEAN, exists \in BOOLEAN :
         create_pc' = IF ~redis_up THEN "rejected503"
                      ELSE IF ~exists THEN "rejected404"
                      ELSE "delay"
    /\ UNCHANGED <<auxVars, storeVars, chanVars, task, revoked, runnerVars, clientVars>>

\* train_model that writes the accepted record before it submits the task.
CreateDelay_RecordFirst ==
    /\ create_pc = "delay"
    /\ job_status' = [status |-> "accepted", task_id |-> TaskId]
    /\ status_ttl' = FALSE
    /\ \E ok \in BOOLEAN :
         IF ok
         THEN task' = "queued" /\ create_pc' = "returned"
         ELSE task' = task /\ create_pc' = "rejected503_queue"
    /\ UNCHANGED <<auxVars, job_pause, job_cancel, chanVars, revoked, runnerVars,
                   clientVars>>

\* train_model_task.delay(...); a broker failure is answered with 503.
CreateDelay ==
    /\ create_pc = "delay"
    /\ \E ok \in BOOLEAN :
         IF ok
         THEN task' = "queued" /\ create_pc' = "set"
         ELSE task' = task /\ create_pc' = "rejected503_queue"
    /\ UNCHANGED <<auxVars, storeVars, chanVars, revoked, runnerVars, clientVars>>

\* client.set(job_status, {status: accepted, task_id, ...}); a failure is
\* printed and the request still returns status accepted.
CreateSet ==
    /\ create_pc = "set"
    /\ \E ok \in BOOLEAN :
         IF ok
         THEN /\ job_status' = [status |-> "accepted", task_id |-> TaskId]
              /\ status_ttl' = FALSE
         ELSE UNCHANGED <<job_status, status_ttl>>
    /\ create_pc' = "returned"
    /\ UNCHANGED <<auxVars, job_pause, job_cancel, chanVars, task, revoked, runnerVars,
                   clientVars>>

train_model == CreateValidate \/ CreateDelay \/ CreateSet

----
\* The task queue

\* A worker takes the task message and starts train_model_task.
WorkerPickup ==
    /\ task = "queued"
    /\ ~revoked
    /\ task' = "running"
    /\ pc' = "init_status"
    /\ UNCHANGED <<auxVars, storeVars, chanVars, revoked, create_pc, hp_ret, total_epochs,
                   epoch, training_history, error_msg, artifact, stored,
                   cancel_seen, clientVars>>

\* A worker drops the message of a revoked task without running it.
WorkerDiscard ==
    /\ task = "queued"
    /\ revoked
    /\ task' = "discarded"
    /\ UNCHANGED <<auxVars, storeVars, chanVars, revoked, create_pc, runnerVars,
                   clientVars>>

\* revoke(task_id, terminate=True) on a running task: the worker kills the
\* pool process that executes it.
WorkerTerminate ==
    /\ task = "running"
    /\ revoked
    /\ task' = "terminated"
    /\ pc' = "terminated"
    /\ UNCHANGED <<auxVars, storeVars, chanVars, revoked, create_pc, hp_ret, total_epochs,
                   epoch, training_history, error_msg, artifact, stored,
                   cancel_seen, clientVars>>

----
\* train_model_task (the Job Runner)

queueVars == <<task, revoked, create_pc>>
flagVars == <<job_pause, job_cancel>>

Running(p) == task = "running" /\ pc = p

\* What pd.read_csv and the validation of lines 384-420 can find.
Datasets == {"ok", "missing", "empty", "no_target", "non_numeric"}

ErrorOf(d) ==
    CASE d = "missing" -> "Dataset not found"
      [] d = "empty" -> "Dataset is empty"
      [] d = "no_target" -> "Target column not found"
      [] d = "non_numeric" -> "Non-numeric columns found"

\* raise: control passes to the except block of the task.
Raise(msg) ==
    /\ pc' = "exc_status"
    /\ error_msg' = msg

RunningRec(p) == [status |-> "running", progress |-> p]

PausedRec == [status |-> "paused"]

ResumedRec == [status |-> "running"]

CancelledRec == [status |-> "cancelled"]

EpochRec(e, total, hist) ==
    [status |-> "running", progress |-> Progress(e, total), epoch |-> e,
     total_epochs |-> total, training_history |-> hist]

\* A result that keeps only the entry of the last epoch.
ResultRec_LastEntry(hist) ==
    [status |-> "completed",
     training_history |-> SubSeq(hist, Len(hist), Len(hist)),
     model_path |-> "models/job_model.pkl"]

ResultRec(hist) ==
    [status |-> "completed", training_history |-> hist,
     model_path |-> "models/job_model.pkl"]

FailedRec(msg) == [status |-> "failed", error |-> msg]

\* update_job_status({status: running, progress: 0})
InitStatus ==
    /\ Running("init_status")
    /\ \E ok \in BOOLEAN : update_job_status(RunningRec(0), ok)
    /\ pc' = "init_pub"
    /\ UNCHANGED <<auxVars, flagVars, chanVars, queueVars, hp_ret, total_epochs, epoch,
                   training_history, error_msg, artifact, cancel_seen,
                   clientVars>>

\* publish_update({type: status, status: running, progress: 0})
InitPublish ==
    /\ Running("init_pub")
    /\ \E ok \in BOOLEAN : publish_update(Event("status", "running"), ok)
    /\ pc' = "load"
    /\ UNCHANGED <<auxVars, storeVars, queueVars, hp_ret, total_epochs, epoch,
                   training_history, error_msg, artifact, stored, cancel_seen,
                   clientVars>>

\* Load and validate the dataset, split, create the model, compute
\* total_epochs; the progress events 10/20/30 go out on the way.
LoadDataset ==
    /\ Running("load")
    /\ \E d \in Datasets, n \in 1..MaxEpochs, ok \in BOOLEAN :
         IF d = "ok"
         THEN /\ total_epochs' = n
              /\ pc' = "prefit_cancel"
              /\ error_msg' = error_msg
              /\ publish_update(Event("progress", "loading"), ok)
         ELSE /\ Raise(ErrorOf(d))
              /\ total_epochs' = total_epochs
              /\ IF d = "non_numeric"
                 THEN publish_update(Event("progress", "loading"), ok)
                 ELSE UNCHANGED chanVars
    /\ UNCHANGED <<auxVars, storeVars, queueVars, hp_ret, epoch, training_history,
                   artifact, stored, cancel_seen, clientVars>>

\* if check_cancellation(): raise Exception("Training cancelled by user")
PrefitCancel ==
    /\ Running("prefit_cancel")
    /\ \E cancelled \in check_cancellation :
         IF cancelled
         THEN /\ Raise("Training cancelled by user")
              /\ cancel_seen' = "prefit"
              /\ hp_ret' = hp_ret
         ELSE /\ pc' = "hp_check"
              /\ hp_ret' = "prefit"
              /\ UNCHANGED <<error_msg, cancel_seen>>
    /\ UNCHANGED <<auxVars, storeVars, chanVars, queueVars, total_epochs, epoch,
                   training_history, artifact, stored, clientVars>>

\* Return of handle_pause to its call site; True means cancelled.
HandlePauseReturn(cancelled) ==
    IF cancelled
    THEN /\ Raise("Training cancelled during pause")
         /\ hp_ret' = "none"
    ELSE /\ pc' = IF hp_ret = "prefit" THEN "fit" ELSE "epoch_pub"
         /\ hp_ret' = "none"
         /\ error_msg' = error_msg

\* handle_pause that lets a Redis error of the flag read escape.
HpCheck_Raises ==
    /\ Running("hp_check")
    /\ \E ok \in BOOLEAN :
         IF ~ok
         THEN Raise("Redis connection error") /\ hp_ret' = "none"
         ELSE IF job_pause
              THEN pc' = "hp_status" /\ UNCHANGED <<hp_ret, error_msg>>
              ELSE HandlePauseReturn(FALSE)
    /\ UNCHANGED <<auxVars, storeVars, chanVars, queueVars, total_epochs, epoch,
                   training_history, artifact, stored, cancel_seen, clientVars>>

\* handle_pause: read the pause flag; no flag or no Redis returns False.
HpCheck ==
    /\ Running("hp_check")
    /\ \E ok \in BOOLEAN :
         IF ok /\ job_pause
         THEN pc' = "hp_status" /\ UNCHANGED <<hp_ret, error_msg>>
         ELSE HandlePauseReturn(FALSE)
    /\ UNCHANGED <<auxVars, storeVars, chanVars, queueVars, total_epochs, epoch,
                   training_history, artifact, stored, cancel_seen, clientVars>>

\* handle_pause: update_job_status({status: paused})
HpStatus ==
    /\ Running("hp_status")
    /\ \E ok \in BOOLEAN : update_job_status(PausedRec, ok)
    /\ pc' = "hp_pub"
    /\ UNCHANGED <<auxVars, flagVars, chanVars, queueVars, hp_ret, total_epochs, epoch,
                   training_history, error_msg, artifact, cancel_seen,
                   clientVars>>

\* handle_pause: publish_update({type: status, status: paused})
HpPublish ==
    /\ Running("hp_pub")
    /\ \E ok \in BOOLEAN : publish_update(Event("status", "paused"), ok)
    /\ pc' = "hp_wait"
    /\ UNCHANGED <<auxVars, storeVars, queueVars, hp_ret, total_epochs, epoch,
                   training_history, error_msg, artifact, stored, cancel_seen,
                   clientVars>>

\* A wait loop that gives up after one poll of a flag that is still set.
HpWait_OnePoll ==
    /\ Running("hp_wait")
    /\ \E ok \in BOOLEAN :
         pc' = IF ~ok THEN "hp_wait_lost" ELSE "hp_resume_status"
    /\ UNCHANGED <<auxVars, storeVars, chanVars, queueVars, hp_ret, total_epochs, epoch,
                   training_history, error_msg, artifact, stored, cancel_seen,
                   clientVars>>

\* handle_pause wait loop: leave when the flag is gone; a Redis connection
\* or timeout error of the flag read goes to the warning and the break.
HpWait ==
    /\ Running("hp_wait")
    /\ \E ok \in BOOLEAN :
         pc' = IF ~ok THEN "hp_wait_lost"
               ELSE IF job_pause THEN "hp_wait_cancel"
               ELSE "hp_resume_status"
    /\ UNCHANGED <<auxVars, storeVars, chanVars, queueVars, hp_ret, total_epochs, epoch,
                   training_history, error_msg, artifact, stored, cancel_seen,
                   clientVars>>

\* logger.warning("Redis connection lost during pause ..., resuming
\* training"); break
HpWaitLost ==
    /\ Running("hp_wait_lost")
    /\ pc' = "hp_resume_status"
    /\ UNCHANGED <<auxVars, storeVars, chanVars, queueVars, hp_ret, total_epochs, epoch,
                   training_history, error_msg, artifact, stored, cancel_seen,
                   clientVars>>

\* handle_pause wait loop: if check_cancellation(): return True; else sleep.
HpWaitCancel ==
    /\ Running("hp_wait_cancel")
    /\ \E cancelled \in check_cancellation :
         IF cancelled
         THEN /\ HandlePauseReturn(TRUE)
              /\ cancel_seen' = "pause"
         ELSE /\ pc' = "hp_wait"
              /\ UNCHANGED <<hp_ret, error_msg, cancel_seen>>
    /\ UNCHANGED <<auxVars, storeVars, chanVars, queueVars, total_epochs, epoch,
                   training_history, artifact, stored, clientVars>>

\* handle_pause: update_job_status({status: running})
HpResumeStatus ==
    /\ Running("hp_resume_status")
    /\ \E ok \in BOOLEAN : update_job_status(ResumedRec, ok)
    /\ pc' = "hp_resume_pub"
    /\ UNCHANGED <<auxVars, flagVars, chanVars, queueVars, hp_ret, total_epochs, epoch,
                   training_history, error_msg, artifact, cancel_seen,
                   clientVars>>

\* handle_pause: publish_update({type: status, status: running}); return False
HpResumePublish ==
    /\ Running("hp_resume_pub")
    /\ \E ok \in BOOLEAN : publish_update(Event("status", "running"), ok)
    /\ HandlePauseReturn(FALSE)
    /\ UNCHANGED <<auxVars, storeVars, queueVars, total_epochs, epoch, training_history,
                   artifact, stored, cancel_seen, clientVars>>

handle_pause ==
    \/ HpCheck \/ HpStatus \/ HpPublish \/ HpWait \/ HpWaitLost
    \/ HpWaitCancel \/ HpResumeStatus \/ HpResumePublish

\* model.fit(X_train, y_train); an exception of the trainer propagates.
Fit ==
    /\ Running("fit")
    /\ \E ok \in BOOLEAN :
         IF ok
         THEN pc' = "postfit_cancel" /\ error_msg' = error_msg
         ELSE Raise("fit failed")
    /\ UNCHANGED <<auxVars, storeVars, chanVars, queueVars, hp_ret, total_epochs, epoch,
                   training_history, artifact, stored, cancel_seen, clientVars>>

\* if check_cancellation(): raise Exception("Training cancelled by user")
PostfitCancel ==
    /\ Running("postfit_cancel")
    /\ \E cancelled \in check_cancellation :
         IF cancelled
         THEN /\ Raise("Training cancelled by user")
              /\ cancel_seen' = "postfit"
         ELSE /\ pc' = "epoch_cancel"
              /\ UNCHANGED <<error_msg, cancel_seen>>
    /\ UNCHANGED <<auxVars, storeVars, chanVars, queueVars, hp_ret, total_epochs, epoch,
                   training_history, artifact, stored, clientVars>>

\* Top of an epoch iteration: check_cancellation, then handle_pause.
EpochCancel ==
    /\ Running("epoch_cancel")
    /\ \E cancelled \in check_cancellation :
         IF cancelled
         THEN /\ pc' = "cancel_status"
              /\ cancel_seen' = "epoch"
              /\ hp_ret' = hp_ret
         ELSE /\ pc' = "hp_check"
              /\ hp_ret' = "epoch"
              /\ cancel_seen' = cancel_seen
    /\ UNCHANGED <<auxVars, storeVars, chanVars, queueVars, total_epochs, epoch,
                   training_history, error_msg, artifact, stored, clientVars>>

\* update_job_status({status: cancelled})
CancelStatus ==
    /\ Running("cancel_status")
    /\ \E ok \in BOOLEAN : update_job_status(CancelledRec, ok)
    /\ pc' = "cancel_pub"
    /\ UNCHANGED <<auxVars, flagVars, chanVars, queueVars, hp_ret, total_epochs, epoch,
                   training_history, error_msg, artifact, cancel_seen,
                   clientVars>>

\* publish_update({type: error, error: Cancelled}); return
CancelPublish ==
    /\ Running("cancel_pub")
    /\ \E ok \in BOOLEAN : publish_update(Event("error", "Cancelled"), ok)
    /\ pc' = "done"
    /\ task' = "succeeded"
    /\ UNCHANGED <<auxVars, storeVars, revoked, create_pc, hp_ret, total_epochs, epoch,
                   training_history, error_msg, artifact, stored, cancel_seen,
                   clientVars>>

\* Metrics, training_history.append(history_entry), publish the progress event.
EpochPublish ==
    /\ Running("epoch_pub")
    /\ training_history' = Append(training_history, epoch + 1)
    /\ \E ok \in BOOLEAN : publish_update(Event("progress", "epoch"), ok)
    /\ pc' = "epoch_status"
    /\ UNCHANGED <<auxVars, storeVars, queueVars, hp_ret, total_epochs, epoch, error_msg,
                   artifact, stored, cancel_seen, clientVars>>

\* update_job_status({status: running, progress, epoch, training_history});
\* then the next iteration, or the code after the loop.
EpochStatus ==
    /\ Running("epoch_status")
    /\ \E ok \in BOOLEAN :
         update_job_status(EpochRec(epoch + 1, total_epochs, training_history),
                           ok)
    /\ epoch' = epoch + 1
    /\ pc' = IF epoch + 1 < total_epochs THEN "epoch_cancel" ELSE "save"
    /\ UNCHANGED <<auxVars, flagVars, chanVars, queueVars, hp_ret, total_epochs,
                   training_history, error_msg, artifact, cancel_seen,
                   clientVars>>

\* Final evaluation and joblib.dump(model, model_path).
SaveModel ==
    /\ Running("save")
    /\ \E ok \in BOOLEAN :
         IF ok
         THEN artifact' = TRUE /\ pc' = "final_status" /\ error_msg' = error_msg
         ELSE artifact' = artifact /\ Raise("cannot save model")
    /\ UNCHANGED <<auxVars, storeVars, chanVars, queueVars, hp_ret, total_epochs, epoch,
                   training_history, stored, cancel_seen, clientVars>>

\* update_job_status(job_id, result)
FinalStatus ==
    /\ Running("final_status")
    /\ \E ok \in BOOLEAN : update_job_status(ResultRec(training_history), ok)
    /\ pc' = "final_pub"
    /\ UNCHANGED <<auxVars, flagVars, chanVars, queueVars, hp_ret, total_epochs, epoch,
                   training_history, error_msg, artifact, cancel_seen,
                   clientVars>>

\* publish_update({type: complete, progress: 100, results}); return result
FinalPublish ==
    /\ Running("final_pub")
    /\ \E ok \in BOOLEAN : publish_update(Event("complete", "100"), ok)
    /\ pc' = "done"
    /\ task' = "succeeded"
    /\ UNCHANGED <<auxVars, storeVars, revoked, create_pc, hp_ret, total_epochs, epoch,
                   training_history, error_msg, artifact, stored, cancel_seen,
                   clientVars>>

\* except Exception: update_job_status({status: failed, error})
ExcStatus ==
    /\ Running("exc_status")
    /\ \E ok \in BOOLEAN : update_job_status(FailedRec(error_msg), ok)
    /\ pc' = "exc_pub"
    /\ UNCHANGED <<auxVars, flagVars, chanVars, queueVars, hp_ret, total_epochs, epoch,
                   training_history, error_msg, artifact, cancel_seen,
                   clientVars>>

\* An except block that ends with self.retry() instead of raise.
ExcPublish_Retry ==
    /\ Running("exc_pub")
    /\ \E ok \in BOOLEAN : publish_update(Event("error", error_msg), ok)
    /\ pc' = "none"
    /\ task' = "queued"
    /\ UNCHANGED <<auxVars, storeVars, revoked, create_pc, hp_ret, total_epochs, epoch,
                   training_history, error_msg, artifact, stored, cancel_seen,
                   clientVars>>

\* except Exception: publish_update({type: error, error}); raise
ExcPublish ==
    /\ Running("exc_pub")
    /\ \E ok \in BOOLEAN : publish_update(Event("error", error_msg), ok)
    /\ pc' = "raised"
    /\ task' = "failed"
    /\ UNCHANGED <<auxVars, storeVars, revoked, create_pc, hp_ret, total_epochs, epoch,
                   training_history, error_msg, artifact, stored, cancel_seen,
                   clientVars>>

train_model_task ==
    \/ InitStatus \/ InitPublish \/ LoadDataset \/ PrefitCancel \/ handle_pause
    \/ Fit \/ PostfitCancel \/ EpochCancel \/ CancelStatus \/ CancelPublish
    \/ EpochPublish \/ EpochStatus \/ SaveModel \/ FinalStatus \/ FinalPublish
    \/ ExcStatus \/ ExcPublish

----
\* Control endpoints.  A request refused with 400 / 404 and a status query
\* end in a reply position that names the answer; Reply returns it.  An
\* exception of a Redis or broker call after the first read ends the request
\* with 500 (ok = FALSE).

otherVars == <<chanVars, task, create_pc, runnerVars>>

\* The request of client c returns.
Return(c) ==
    /\ cpc' = [cpc EXCEPT ![c] = "idle"]
    /\ job_data' = [job_data EXCEPT ![c] = NoRec]

Goto(c, p) ==
    /\ cpc' = [cpc EXCEPT ![c] = p]
    /\ job_data' = job_data

\* job_data["status"] = s; client.set(job_status, json.dumps(job_data))
SetStatus(c, s) ==
    /\ job_status' = [job_data[c] EXCEPT !.status = s]
    /\ status_ttl' = FALSE

\* pause_job: read the record, require status running or paused.
PauseRead(c) ==
    /\ cpc[c] = "idle"
    /\ job_status # NoRec
    /\ job_status.status \in {"running", "paused"}
    /\ cpc' = [cpc EXCEPT ![c] = "pause_flag"]
    /\ job_data' = [job_data EXCEPT ![c] = job_status]
    /\ UNCHANGED <<auxVars, storeVars, revoked, stop_ok, otherVars>>

\* pause_job: client.set(job_pause, "true")
PauseSetFlag(c) ==
    /\ cpc[c] = "pause_flag"
    /\ \E ok \in BOOLEAN :
         IF ok
         THEN job_pause' = TRUE /\ Goto(c, "pause_status")
         ELSE job_pause' = job_pause /\ Return(c)
    /\ UNCHANGED <<auxVars, job_status, status_ttl, job_cancel, revoked, stop_ok,
                   otherVars>>

\* pause_job: write the record back with status paused.
PauseWrite(c) ==
    /\ cpc[c] = "pause_status"
    /\ \E ok \in BOOLEAN :
         IF ok
         THEN SetStatus(c, "paused") /\ Goto(c, "pause_pub")
         ELSE UNCHANGED <<job_status, status_ttl>> /\ Return(c)
    /\ UNCHANGED <<auxVars, flagVars, revoked, stop_ok, otherVars>>

\* pause_job: publish status paused (a failure is printed), return 200.
PausePublish(c) ==
    /\ cpc[c] = "pause_pub"
    /\ \E ok \in BOOLEAN : publish_update(Event("status", "paused"), ok)
    /\ Return(c)
    /\ UNCHANGED <<auxVars, storeVars, task, revoked, create_pc, runnerVars, stop_ok>>

\* pause_job that sets the flag before it checks the status.
PauseReject_SetsFlag(c) ==
    /\ cpc[c] = "idle"
    /\ job_status.status \notin {"running", "paused"}
    /\ cpc' = [cpc EXCEPT ![c] = IF job_status = NoRec THEN "pause_404"
                                 ELSE "pause_400"]
    /\ job_data' = [job_data EXCEPT ![c] = job_status]
    /\ job_pause' = (job_status # NoRec \/ job_pause)
    /\ UNCHANGED <<auxVars, job_status, status_ttl, job_cancel, revoked, stop_ok,
                   otherVars>>

\* pause_job: no record is answered 404, another status 400.
PauseReject(c) ==
    /\ cpc[c] = "idle"
    /\ job_status.status \notin {"running", "paused"}
    /\ cpc' = [cpc EXCEPT ![c] = IF job_status = NoRec THEN "pause_404"
                                 ELSE "pause_400"]
    /\ job_data' = [job_data EXCEPT ![c] = job_status]
    /\ UNCHANGED <<auxVars, storeVars, revoked, stop_ok, otherVars>>

pause_job(c) ==
    \/ PauseRead(c) \/ PauseSetFlag(c) \/ PauseWrite(c) \/ PausePublish(c)
    \/ PauseReject(c)

\* resume_job: read the record, require status paused or running.
ResumeRead(c) ==
    /\ cpc[c] = "idle"
    /\ job_status # NoRec
    /\ job_status.status \in {"paused", "running"}
    /\ cpc' = [cpc EXCEPT ![c] = "resume_flag"]
    /\ job_data' = [job_data EXCEPT ![c] = job_status]
    /\ UNCHANGED <<auxVars, storeVars, revoked, stop_ok, otherVars>>

\* resume_job: client.delete(job_pause)
ResumeClearFlag(c) ==
    /\ cpc[c] = "resume_flag"
    /\ \E ok \in BOOLEAN :
         IF ok
         THEN job_pause' = FALSE /\ Goto(c, "resume_status")
         ELSE job_pause' = job_pause /\ Return(c)
    /\ UNCHANGED <<auxVars, job_status, status_ttl, job_cancel, revoked, stop_ok,
                   otherVars>>

\* resume_job: write the record back with status running.
ResumeWrite(c) ==
    /\ cpc[c] = "resume_status"
    /\ \E ok \in BOOLEAN :
         IF ok
         THEN SetStatus(c, "running") /\ Goto(c, "resume_pub")
         ELSE UNCHANGED <<job_status, status_ttl>> /\ Return(c)
    /\ UNCHANGED <<auxVars, flagVars, revoked, stop_ok, otherVars>>

\* resume_job: publish status running (a failure is printed), return 200.
ResumePublish(c) ==
    /\ cpc[c] = "resume_pub"
    /\ \E ok \in BOOLEAN : publish_update(Event("status", "running"), ok)
    /\ Return(c)
    /\ UNCHANGED <<auxVars, storeVars, task, revoked, create_pc, runnerVars, stop_ok>>

\* resume_job: no record is answered 404, another status 400.
ResumeReject(c) ==
    /\ cpc[c] = "idle"
    /\ job_status.status \notin {"paused", "running"}
    /\ cpc' = [cpc EXCEPT ![c] = IF job_status = NoRec THEN "resume_404"
                                 ELSE "resume_400"]
    /\ job_data' = [job_data EXCEPT ![c] = job_status]
    /\ UNCHANGED <<auxVars, storeVars, revoked, stop_ok, otherVars>>

resume_job(c) ==
    \/ ResumeRead(c) \/ ResumeClearFlag(c) \/ ResumeWrite(c)
    \/ ResumePublish(c) \/ ResumeReject(c)

\* stop_job: read the record (any status).
StopRead(c) ==
    /\ cpc[c] = "idle"
    /\ job_status # NoRec
    /\ cpc' = [cpc EXCEPT ![c] = "stop_revoke"]
    /\ job_data' = [job_data EXCEPT ![c] = job_status]
    /\ UNCHANGED <<auxVars, storeVars, revoked, stop_ok, otherVars>>

\* stop_job without the revoke call.
StopRevoke_NoRevoke(c) ==
    /\ cpc[c] = "stop_revoke"
    /\ revoked' = revoked
    /\ Goto(c, "stop_status")
    /\ UNCHANGED <<auxVars, storeVars, stop_ok, otherVars>>

\* stop_job: task_id = job_data.get("task_id"); if task_id: revoke(task_id)
StopRevoke(c) ==
    /\ cpc[c] = "stop_revoke"
    /\ \E ok \in BOOLEAN :
         IF Has(job_data[c], "task_id")
         THEN IF ok
              THEN revoked' = TRUE /\ Goto(c, "stop_status")
              ELSE revoked' = revoked /\ Return(c)
         ELSE revoked' = revoked /\ Goto(c, "stop_status")
    /\ UNCHANGED <<auxVars, storeVars, stop_ok, otherVars>>

\* stop_job: write the record back with status cancelled.
StopWrite(c) ==
    /\ cpc[c] = "stop_status"
    /\ \E ok \in BOOLEAN :
         IF ok
         THEN SetStatus(c, "cancelled") /\ Goto(c, "stop_flag")
         ELSE UNCHANGED <<job_status, status_ttl>> /\ Return(c)
    /\ UNCHANGED <<auxVars, flagVars, revoked, stop_ok, otherVars>>

\* stop_job: client.delete(job_pause), return 200.
StopClearFlag(c) ==
    /\ cpc[c] = "stop_flag"
    /\ \E ok \in BOOLEAN :
         IF ok
         THEN /\ job_pause' = FALSE
              /\ stop_ok' = (stop_ok \/ job_data[c].status \in NonTerminal)
         ELSE UNCHANGED <<job_pause, stop_ok>>
    /\ Return(c)
    /\ UNCHANGED <<auxVars, job_status, status_ttl, job_cancel, revoked, otherVars>>

stop_job(c) ==
    StopRead(c) \/ StopRevoke(c) \/ StopWrite(c) \/ StopClearFlag(c)

\* GET /jobs/{job_id} (job_status): 503 without a Redis client, 500 when
\* client.get raises, 404 without a record, else the record.
get_job_status(c) ==
    /\ cpc[c] = "idle"
    /\ \E up \in BOOLEAN, ok \in BOOLEAN :
         /\ cpc' = [cpc EXCEPT ![c] = IF ~up THEN "get_503"
                                      ELSE IF ~ok THEN "get_500"
                                      ELSE IF job_status = NoRec THEN "get_404"
                                      ELSE "get_200"]
         /\ job_data' = [job_data EXCEPT ![c] =
                            IF up /\ ok THEN job_status ELSE NoRec]
    /\ UNCHANGED <<auxVars, storeVars, revoked, stop_ok, otherVars>>

ReplyStates ==
    {"pause_400", "pause_404", "resume_400", "resume_404",
     "get_200", "get_404", "get_500", "get_503"}

\* The answer of a refused request or of a status query goes out.
Reply(c) ==
    /\ cpc[c] \in ReplyStates
    /\ Return(c)
    /\ UNCHANGED <<auxVars, storeVars, revoked, stop_ok, otherVars>>

----
\* Channel names and the JSON text of records and events

\* A channel name that leaves the job id out.
PubChannel_OneChannel(j) == <<"job_", JobId(0)>>

\* f"job_{job_id}" in publish_update and in the endpoints
PubChannel(j) == <<"job_", j>>

\* f"job_{job_id}" in websocket_endpoint
SubChannel(j) == <<"job_", j>>

\* Keys of the status records in the order json.dumps writes them.
JsonKeys == <<"type", "status", "progress", "epoch", "total_epochs",
              "training_history", "model_path", "error", "task_id",
              "message">>

JsonType(k) ==
    IF k \in {"progress", "epoch", "total_epochs"} THEN "number"
    ELSE IF k = "training_history" THEN "array"
    ELSE "string"

\* json.dumps of a record: the members in order, each value as its JSON token.
dumps(r) ==
    LET ks == SelectSeq(JsonKeys, LAMBDA k : k \in DOMAIN r)
    IN  [i \in 1..Len(ks) |-> <<ks[i], <<JsonType(ks[i]), r[ks[i]]>>>>]

\* json.loads: the dict of the members of the text.
loads(text) ==
    [k \in {text[i][1] : i \in 1..Len(text)} |->
        LET i == CHOOSE n \in 1..Len(text) : text[n][1] = k
        IN  text[i][2][2]]

----
\* WebSocket gateway (websocket_endpoint) for the job

\* Most frames the model records for one session.
MaxFrames == 4

\* Most channel messages waiting in the gateway's pubsub.
MaxPending == 2

\* ping_interval = 10
PingInterval == 10

\* Most publishes of a run of the gateway model.
MaxPublished == 2

\* job_id of the websocket_endpoint call.
GwJob == JobId(0)

\* A job that publishes while the session of GwJob is open.
OtherJob == JobId(1)

jobVars == <<storeVars, chanVars, queueVars, runnerVars, clientVars, mjVars,
             ceVars>>

Frame(t, st) == [type |-> t, status |-> st]

\* The frame of a forwarded channel message: the parsed data, as it is.
EventFrame(data) == [type |-> "event", status |-> "", data |-> data]

\* ws.send_json of a frame to a connected client.
Sent(f) == frames' = Append(frames, f)

\* The loop sends while the recorded session has room.
Room == Len(frames) < MaxFrames

\* A websocket_endpoint that subscribes before it looks at the client.
GwAccept_SubscribeFirst ==
    /\ gw_pc = "none"
    /\ ws_state' = "open"
    /\ subscribed' = TRUE
    /\ \E up \in BOOLEAN :
         /\ gw_store_ok' = up
         /\ gw_pc' = IF up THEN "send_connected" ELSE "unavailable"
    /\ UNCHANGED <<jobVars, gwLog, frames, ws_alive, pending, polled, elapsed>>

\* await ws.accept(); client = get_redis_client(); if client is None: ...
GwAccept ==
    /\ gw_pc = "none"
    /\ ws_state' = "open"
    /\ \E up \in BOOLEAN :
         /\ gw_store_ok' = up
         /\ gw_pc' = IF up THEN "subscribe" ELSE "unavailable"
    /\ UNCHANGED <<jobVars, gwLog, frames, subscribed, ws_alive, pending, polled,
                   elapsed>>

\* send_json({type: error, error: "Redis not connected"}); ws.close(); return.
\* A send to a client that is gone raises out of the endpoint, and the server
\* drops the connection.
GwUnavailable ==
    /\ gw_pc = "unavailable"
    /\ IF ws_alive
       THEN Sent(Frame("error", "")) /\ gw_pc' = "returned"
       ELSE UNCHANGED frames /\ gw_pc' = "raised"
    /\ ws_state' = "closed"
    /\ UNCHANGED <<jobVars, gwLog, subscribed, ws_alive, pending, polled, elapsed,
                   gw_store_ok>>

\* A subscribe that registers nothing before the session reads the status.
GwSubscribe_Late ==
    /\ gw_pc = "subscribe"
    /\ \E ok \in BOOLEAN :
         IF ok
         THEN /\ subscribed' = FALSE
              /\ gw_pc' = "send_connected"
              /\ UNCHANGED <<ws_state, gw_store_ok>>
         ELSE /\ subscribed' = FALSE
              /\ gw_pc' = "raised"
              /\ ws_state' = "closed"
              /\ gw_store_ok' = FALSE
    /\ UNCHANGED <<jobVars, gwLog, frames, ws_alive, pending, polled, elapsed>>

\* pubsub = client.pubsub(); pubsub.subscribe("job_" + job_id), before the
\* try block: a Redis error raises out of the endpoint.
GwSubscribe ==
    /\ gw_pc = "subscribe"
    /\ \E ok \in BOOLEAN :
         IF ok
         THEN /\ subscribed' = TRUE
              /\ gw_pc' = "send_connected"
              /\ UNCHANGED <<ws_state, gw_store_ok>>
         ELSE /\ subscribed' = FALSE
              /\ gw_pc' = "raised"
              /\ ws_state' = "closed"
              /\ gw_store_ok' = FALSE
    /\ UNCHANGED <<jobVars, gwLog, frames, ws_alive, pending, polled, elapsed>>

\* send_json({type: connected, job_id}); a failed send is caught by the
\* outer except.
GwSendConnected ==
    /\ gw_pc = "send_connected"
    /\ IF ws_alive
       THEN Sent(Frame("connected", "")) /\ gw_pc' = "send_status"
       ELSE UNCHANGED frames /\ gw_pc' = "except"
    /\ UNCHANGED <<jobVars, gwLog, subscribed, ws_state, ws_alive, pending, polled,
                   elapsed, gw_store_ok>>

\* status_data = client.get("job_status:" + job_id); if status_data: send the
\* status frame; every exception of the block is printed and dropped.  Then
\* last_ping = datetime.now().
GwSendStatus ==
    /\ gw_pc = "send_status"
    /\ \E ok \in BOOLEAN :
         /\ gw_store_ok' = (gw_store_ok /\ ok)
         /\ IF ok /\ job_status # NoRec /\ ws_alive
            THEN Sent(Frame("status", job_status.status))
            ELSE UNCHANGED frames
    /\ snap_at' = Len(published)
    /\ elapsed' = 0
    /\ gw_pc' = "get_message"
    /\ UNCHANGED <<jobVars, message, published, heard, subscribed, ws_state,
                   ws_alive, pending, polled>>

\* A get_message that hands out the newest waiting message first.
GwGetMessage_Newest ==
    /\ gw_pc = "get_message"
    /\ Room
    /\ \E ok \in BOOLEAN :
         IF ~ok
         THEN /\ gw_pc' = "except"
              /\ gw_store_ok' = FALSE
              /\ UNCHANGED <<pending, polled, message>>
         ELSE /\ gw_store_ok' = gw_store_ok
              /\ IF pending # << >>
                 THEN /\ message' = pending[Len(pending)]
                      /\ pending' = SubSeq(pending, 1, Len(pending) - 1)
                      /\ polled' = "message"
                      /\ gw_pc' = "forward"
                 ELSE /\ pending' = pending
                      /\ message' = NoMessage
                      /\ polled' = "none"
                      /\ gw_pc' = "idle"
    /\ UNCHANGED <<jobVars, published, heard, snap_at, frames, subscribed,
                   ws_state, ws_alive, elapsed>>

\* message = pubsub.get_message(ignore_subscribe_messages=True): the oldest
\* waiting message or None; a channel error is caught by the outer except.
GwGetMessage ==
    /\ gw_pc = "get_message"
    /\ Room
    /\ \E ok \in BOOLEAN :
         IF ~ok
         THEN /\ gw_pc' = "except"
              /\ gw_store_ok' = FALSE
              /\ UNCHANGED <<pending, polled, message>>
         ELSE /\ gw_store_ok' = gw_store_ok
              /\ IF pending # << >>
                 THEN /\ message' = Head(pending)
                      /\ pending' = Tail(pending)
                      /\ polled' = "message"
                      /\ gw_pc' = "forward"
                 ELSE /\ pending' = pending
                      /\ message' = NoMessage
                      /\ polled' = "none"
                      /\ gw_pc' = "idle"
    /\ UNCHANGED <<jobVars, published, heard, snap_at, frames, subscribed,
                   ws_state, ws_alive, elapsed>>

\* data = json.loads(message["data"]); send_json(data); last_ping = now.  The
\* publishers of the repository publish JSON objects only; a failed send is
\* not a JSON error and is caught by the outer except.
GwForward ==
    /\ gw_pc = "forward"
    /\ IF ws_alive
       THEN /\ Sent(EventFrame(loads(message.data)))
            /\ elapsed' = 0
            /\ gw_pc' = "get_message"
       ELSE /\ UNCHANGED <<frames, elapsed>>
            /\ gw_pc' = "except"
    /\ UNCHANGED <<jobVars, gwLog, subscribed, ws_state, ws_alive, pending, polled,
                   gw_store_ok>>

\* A loop that pings on every idle iteration.
GwPing_NoInterval ==
    /\ gw_pc = "idle"
    /\ IF ws_alive
       THEN /\ Sent(Frame("ping", ""))
            /\ elapsed' = 0
            /\ gw_pc' = "sleep"
       ELSE /\ UNCHANGED <<frames, elapsed>>
            /\ gw_pc' = "finally_unsub"
    /\ UNCHANGED <<jobVars, gwLog, subscribed, ws_state, ws_alive, pending, polled,
                   gw_store_ok>>

\* if (now - last_ping).total_seconds() >= ping_interval: send the ping and
\* last_ping = now, or break when the send fails.
GwPing ==
    /\ gw_pc = "idle"
    /\ IF elapsed >= PingInterval
       THEN IF ws_alive
            THEN /\ Sent(Frame("ping", ""))
                 /\ elapsed' = 0
                 /\ gw_pc' = "sleep"
            ELSE /\ UNCHANGED <<frames, elapsed>>
                 /\ gw_pc' = "finally_unsub"
       ELSE /\ UNCHANGED <<frames, elapsed>>
            /\ gw_pc' = "sleep"
    /\ UNCHANGED <<jobVars, gwLog, subscribed, ws_state, ws_alive, pending, polled,
                   gw_store_ok>>

\* await asyncio.sleep(1.0)
GwSleep ==
    /\ gw_pc = "sleep"
    /\ elapsed' = elapsed + 1
    /\ gw_pc' = "get_message"
    /\ UNCHANGED <<jobVars, gwLog, frames, subscribed, ws_state, ws_alive, pending,
                   polled, gw_store_ok>>

\* except Exception: try to send {type: error}; a failure is dropped.
GwExcept ==
    /\ gw_pc = "except"
    /\ IF ws_alive THEN Sent(Frame("error", "")) ELSE UNCHANGED frames
    /\ gw_pc' = "finally_unsub"
    /\ UNCHANGED <<jobVars, gwLog, subscribed, ws_state, ws_alive, pending, polled,
                   elapsed, gw_store_ok>>

\* A teardown that keeps the subscription.
GwUnsubscribe_Skipped ==
    /\ gw_pc = "finally_unsub"
    /\ gw_pc' = "finally_close"
    /\ UNCHANGED <<jobVars, gwLog, frames, subscribed, ws_state, ws_alive, pending,
                   polled, elapsed, gw_store_ok>>

\* finally: pubsub.unsubscribe(channel); pubsub.close().  When the call
\* raises, the error is dropped; redis-py has then disconnected the pubsub
\* connection, and the server ends a subscription with its connection.
GwUnsubscribe ==
    /\ gw_pc = "finally_unsub"
    /\ \E ok \in BOOLEAN : gw_store_ok' = (gw_store_ok /\ ok)
    /\ subscribed' = FALSE
    /\ pending' = << >>
    /\ gw_pc' = "finally_close"
    /\ UNCHANGED <<jobVars, gwLog, frames, ws_state, ws_alive, polled, elapsed>>

\* finally: await ws.close(); an error of a closed socket is dropped.
GwClose ==
    /\ gw_pc = "finally_close"
    /\ ws_state' = "closed"
    /\ gw_pc' = "done"
    /\ UNCHANGED <<jobVars, gwLog, frames, subscribed, ws_alive, pending, polled,
                   elapsed, gw_store_ok>>

websocket_endpoint ==
    \/ GwAccept \/ GwUnavailable \/ GwSubscribe \/ GwSendConnected
    \/ GwSendStatus \/ GwGetMessage \/ GwForward \/ GwPing \/ GwSleep
    \/ GwExcept \/ GwUnsubscribe \/ GwClose

\* A publish_update or an endpoint publish on job_{job_id}: Redis hands the
\* message to the pubsub connections subscribed at that moment.
Published ==
    /\ Len(published) < MaxPublished
    /\ \E j \in {GwJob, OtherJob} :
         LET ev == [type |-> "progress", epoch |-> Len(published) + 1]
             hears == subscribed /\ SubChannel(GwJob) = PubChannel(j)
         IN  /\ hears => Len(pending) < MaxPending
             /\ published' = Append(published,
                                    [channel |-> PubChannel(j), event |-> ev])
             /\ IF hears
                THEN /\ pending' = Append(pending, [channel |-> PubChannel(j),
                                                    data |-> dumps(ev)])
                     /\ heard' = Append(heard, [channel |-> PubChannel(j),
                                                event |-> ev])
                ELSE UNCHANGED <<pending, heard>>
    /\ UNCHANGED <<jobVars, message, snap_at, gw_pc, frames, subscribed, ws_state,
                   ws_alive, polled, elapsed, gw_store_ok>>

\* The browser goes away; the gateway learns of it at its next send.
ClientDisconnect ==
    /\ ws_state = "open"
    /\ ws_alive
    /\ ws_alive' = FALSE
    /\ UNCHANGED <<jobVars, gwLog, gw_pc, frames, subscribed, ws_state, pending,
                   polled, elapsed, gw_store_ok>>

\* Records a session can find under job_status:{job_id}.
SessionRecords == {NoRec, [status |-> "accepted", task_id |-> TaskId],
                   RunningRec(0), PausedRec, ResultRec(<<1>>)}

GwInit ==
    /\ GwIdle
    /\ MjIdle
    /\ CeIdle
    /\ job_status \in SessionRecords
    /\ status_ttl = (job_status \notin {NoRec, [status |-> "accepted",
                                                task_id |-> TaskId]})
    /\ job_pause = FALSE
    /\ job_cancel = FALSE
    /\ terminal_event = [type |-> "none", detail |-> ""]
    /\ task = "none"
    /\ revoked = FALSE
    /\ create_pc = "returned"
    /\ pc = "none"
    /\ hp_ret = "none"
    /\ total_epochs = 0
    /\ epoch = 0
    /\ training_history = << >>
    /\ error_msg = ""
    /\ artifact = FALSE
    /\ cpc = [c \in Clients |-> "idle"]
    /\ job_data = [c \in Clients |-> NoRec]
    /\ stored = "none"
    /\ cancel_seen = "none"
    /\ stop_ok = FALSE

GwNext == websocket_endpoint \/ Published \/ ClientDisconnect

\* The event loop keeps running the coroutine of an open session.
GatewaySpec == GwInit /\ [][GwNext]_vars /\ WF_vars(websocket_endpoint)

----
\* The keyspace and channels shared by all jobs, keyed by job id

\* Most POST /train calls.
MaxJobs == 2

\* Most messages the model delivers to one gateway session.
MaxInbox == 1

\* A status key that leaves the job id out of the name.
TaskStatusKey_OneKey(j) == <<"job_status:", JobId(0)>>

\* f"job_status:{job_id}" in update_job_status
TaskStatusKey(j) == <<"job_status:", j>>

\* f"job_status:{job_id}" in the endpoints
ApiStatusKey(j) == <<"job_status:", j>>

\* f"job_pause:{job_id}"
PauseKey(j) == <<"job_pause:", j>>

\* client.get(key) of a missing key: None, which `if not data` treats as the
\* empty string.
Nil == << >>

Get(key) == IF key \in DOMAIN kv THEN kv[key] ELSE Nil

\* client.set / client.setex(key, value)
Put(key, value) ==
    [k \in DOMAIN kv \cup {key} |-> IF k = key THEN value ELSE kv[k]]

\* client.delete(key)
Delete(key) == [k \in DOMAIN kv \ {key} |-> kv[k]]

\* Records the task writes with update_job_status.
TaskRecords ==
    {RunningRec(0), EpochRec(1, 1, <<1>>), ResultRec(<<1>>),
     FailedRec("Dataset is empty")}

Created == {issued[i] : i \in 1..Len(issued)}

\* train_model: the job id from the clock, delay(), client.set of the accepted
\* record.
MjCreate ==
    /\ Len(issued) < MaxJobs
    /\ LET job_id == JobId(now_ms)
           rec == [status |-> "accepted", task_id |-> TaskId]
       IN  /\ kv' = Put(ApiStatusKey(job_id), dumps(rec))
           /\ expiring' = expiring \ {ApiStatusKey(job_id)}
           /\ issued' = Append(issued, job_id)
           /\ actor' = job_id
           /\ last_op' = [op |-> "set", job |-> job_id, data |-> rec]
    /\ UNCHANGED <<storeVars, chanVars, queueVars, runnerVars, clientVars,
                   gwVars, ceVars, inbox, now_ms>>

\* update_job_status(job_id, data): setex with 3600 s; a failure is dropped.
MjUpdateStatus ==
    /\ \E j \in Created, data \in TaskRecords, ok \in BOOLEAN :
         /\ actor' = j
         /\ IF ok
            THEN /\ kv' = Put(TaskStatusKey(j), dumps(data))
                 /\ expiring' = expiring \cup {TaskStatusKey(j)}
                 /\ last_op' = [op |-> "setex", job |-> j, data |-> data]
            ELSE /\ UNCHANGED <<kv, expiring>>
                 /\ last_op' = [op |-> "none"]
    /\ UNCHANGED <<storeVars, chanVars, queueVars, runnerVars, clientVars,
                   gwVars, ceVars, inbox, now_ms, issued>>

\* job_status: client.get, 404 for no data, else json.loads(data).
read_status(j) ==
    LET data == Get(ApiStatusKey(j))
    IN  IF data = Nil THEN NoRec ELSE loads(data)

MjGetStatus ==
    /\ \E j \in JobIds :
         /\ actor' = j
         /\ last_op' = [op |-> "get", job |-> j,
                        data |-> read_status(j),
                        prev |-> IF last_op.op = "get"
                                 THEN [op |-> "get"] ELSE last_op]
    /\ UNCHANGED <<storeVars, chanVars, queueVars, runnerVars, clientVars,
                   gwVars, ceVars, kv, expiring, inbox, now_ms, issued>>

\* publish_update / client.publish: Redis delivers to the sessions
\* subscribed to the channel of that name.
Deliver(j) ==
    [i \in JobIds |-> IF SubChannel(i) = PubChannel(j) /\ inbox[i] < MaxInbox
                      THEN inbox[i] + 1 ELSE inbox[i]]

MjPublish ==
    /\ \E j \in Created :
         /\ actor' = j
         /\ inbox' = Deliver(j)
    /\ last_op' = [op |-> "publish"]
    /\ UNCHANGED <<storeVars, chanVars, queueVars, runnerVars, clientVars,
                   gwVars, ceVars, kv, expiring, now_ms, issued>>

\* pause_job (flag "true", status paused) and resume_job (flag deleted,
\* status running): read, check the status, write the flag, write the
\* record back, publish.
MjPauseResume ==
    /\ \E j \in Created, st \in {"paused", "running"} :
         LET data == Get(ApiStatusKey(j))
             job_rec == [loads(data) EXCEPT !.status = st]
             flagged == IF st = "paused"
                        THEN Put(PauseKey(j), <<"true">>)
                        ELSE Delete(PauseKey(j))
         IN  /\ data # Nil
             /\ loads(data).status \in {"running", "paused"}
             /\ kv' = [k \in DOMAIN flagged \cup {ApiStatusKey(j)} |->
                          IF k = ApiStatusKey(j) THEN dumps(job_rec)
                          ELSE flagged[k]]
             /\ expiring' = expiring \ {ApiStatusKey(j)}
             /\ inbox' = Deliver(j)
             /\ actor' = j
             /\ last_op' = [op |-> "set", job |-> j, data |-> job_rec]
    /\ UNCHANGED <<storeVars, chanVars, queueVars, runnerVars, clientVars,
                   gwVars, ceVars, now_ms, issued>>

\* stop_job: read, revoke, write status cancelled, delete the pause flag.
MjStop ==
    /\ \E j \in Created :
         LET data == Get(ApiStatusKey(j))
             job_rec == [loads(data) EXCEPT !.status = "cancelled"]
             written == Put(ApiStatusKey(j), dumps(job_rec))
         IN  /\ data # Nil
             /\ kv' = [k \in DOMAIN written \ {PauseKey(j)} |-> written[k]]
             /\ expiring' = expiring \ {ApiStatusKey(j)}
             /\ actor' = j
             /\ last_op' = [op |-> "set", job |-> j, data |-> job_rec]
    /\ UNCHANGED <<storeVars, chanVars, queueVars, runnerVars, clientVars,
                   gwVars, ceVars, inbox, now_ms, issued>>

\* Redis removes a key whose expiry has passed.
MjExpire ==
    /\ \E k \in expiring :
         /\ kv' = Delete(k)
         /\ expiring' = expiring \ {k}
         /\ actor' = k[2]
    /\ last_op' = [op |-> "expire"]
    /\ UNCHANGED <<storeVars, chanVars, queueVars, runnerVars, clientVars,
                   gwVars, ceVars, inbox, now_ms, issued>>

\* The millisecond clock advances.
MjTick ==
    /\ now_ms < MaxTick
    /\ now_ms' = now_ms + 1
    /\ UNCHANGED <<storeVars, chanVars, queueVars, runnerVars, clientVars,
                   gwVars, ceVars, kv, expiring, inbox, issued, actor, last_op>>

MjNext ==
    \/ MjCreate \/ MjUpdateStatus \/ MjGetStatus \/ MjPublish
    \/ MjPauseResume \/ MjStop \/ MjExpire \/ MjTick

MultiSpec == Init /\ [][MjNext]_vars

\* ---------------------------------------------------------------------
\* calculate_epochs as a function of its two arguments.

SizeSpread == 2
MaxOverride == 3

\* len(X_train) around the two thresholds and at the smallest sizes.
Sizes ==
    (0 .. SizeSpread)
      \cup ((1000 - SizeSpread) .. (1000 + SizeSpread))
      \cup ((10000 - SizeSpread) .. (10000 + SizeSpread))

\* model_config.get("epochs"): absent, zero, negative or positive.
Overrides ==
    {NoEpochs} \cup {[given |-> TRUE, value |-> v] : v \in -MaxOverride .. MaxOverride}

\* Python truth value of user_epochs: None and 0 are false.
Truthy(user_epochs) == user_epochs.given /\ user_epochs.value # 0

\* calculate_epochs with the first threshold inclusive.
calculate_epochs_Inclusive(dataset_size, user_epochs) ==
    IF Truthy(user_epochs) /\ user_epochs.value > 0
    THEN user_epochs.value
    ELSE IF dataset_size <= 1000 THEN 50
    ELSE IF dataset_size < 10000 THEN 20
    ELSE 10

calculate_epochs(dataset_size, user_epochs) ==
    IF Truthy(user_epochs) /\ user_epochs.value > 0
    THEN user_epochs.value
    ELSE IF dataset_size < 1000 THEN 50
    ELSE IF dataset_size < 10000 THEN 20
    ELSE 10

\* total_epochs = calculate_epochs(len(X_train), model_config.get("epochs"))
CalculateEpochs ==
    /\ ce_out = 0
    /\ ce_out' = calculate_epochs(ce_in.dataset_size, ce_in.user_epochs)
    /\ UNCHANGED <<ce_in, gwVars, mjVars, storeVars, chanVars, queueVars, runnerVars,
                   clientVars>>

\* A call with any size and any override, nothing else going on.
CeInit ==
    /\ GwIdle
    /\ MjIdle
    /\ ce_in \in [dataset_size : Sizes, user_epochs : Overrides]
    /\ ce_out = 0
    /\ job_status = NoRec
    /\ status_ttl = FALSE
    /\ job_pause = FALSE
    /\ job_cancel = FALSE
    /\ terminal_event = [type |-> "none", detail |-> ""]
    /\ task = "none"
    /\ revoked = FALSE
    /\ create_pc = "start"
    /\ pc = "none"
    /\ hp_ret = "none"
    /\ total_epochs = 0
    /\ epoch = 0
    /\ training_history = << >>
    /\ error_msg = ""
    /\ artifact = FALSE
    /\ cpc = [c \in Clients |-> "idle"]
    /\ job_data = [c \in Clients |-> NoRec]
    /\ stored = "none"
    /\ cancel_seen = "none"
    /\ stop_ok = FALSE

CeNext == CalculateEpochs

EpochsSpec == CeInit /\ [][CeNext]_vars

Next ==
    \/ train_model
    \/ WorkerPickup \/ WorkerDiscard \/ WorkerTerminate
    \/ train_model_task
    \/ \E c \in Clients :
         \/ pause_job(c) \/ resume_job(c) \/ stop_job(c)
         \/ get_job_status(c) \/ Reply(c)

Spec == Init /\ [][Next]_vars

----
\* Properties

Status == job_status.status

Hist(r) == IF Has(r, "training_history") THEN r.training_history ELSE << >>

IsPrefix(a, b) == Len(a) <= Len(b) /\ \A i \in 1..Len(a) : a[i] = b[i]

StrictlyIncreasing(h) == \A i \in 1..(Len(h) - 1) : h[i] < h[i + 1]

Quiescent ==
    /\ create_pc \in {"returned", "rejected404", "rejected503",
                     "rejected503_queue"}
    /\ task \notin {"queued", "running"}
    /\ \A c \in Clients : cpc[c] = "idle"

\* The transition table of the status: accepted -> running, running <-> paused,
\* running or paused -> cancelled, running -> completed, running -> failed.
\* The first record of the key is not a change of status; with the cancel
\* operation being valid from every non-terminal status, accepted ->
\* cancelled is let through as well.
TableTransition(a, b) ==
    \/ a = b
    \/ a = "none"
    \/ a = "accepted" /\ b \in {"running", "cancelled"}
    \/ a = "running" /\ b \in {"paused", "cancelled", "completed", "failed"}
    \/ a = "paused" /\ b \in {"running", "cancelled"}

\* C1: every change of the persisted status is a transition of the table.
C1_OnlyTableTransitions ==
    [][TableTransition(job_status.status, job_status'.status)]_vars

\* C2: a persisted terminal status (completed, failed, cancelled) is never
\* changed by a later step.
C2_TerminalAbsorbing ==
    [][job_status.status \in Terminal
         => job_status'.status = job_status.status]_vars

\* C3: once a stop of a job with status accepted, running or paused has
\* returned and the task and every request have ended, the persisted status
\* is cancelled (and so not failed).
C3_StopEndsCancelled ==
    (stop_ok /\ Quiescent) => Status = "cancelled"

\* C4: a cancellation observed at a checkpoint never takes the task to its
\* failed write; it leads to the cancelled write and the Cancelled event.
C4_ObservedCancelNotFailed ==
    cancel_seen # "none" =>
        /\ pc \notin {"exc_status", "exc_pub", "raised"}
        /\ stored # "failed"
        /\ terminal_event.type = "error" => terminal_event.detail = "Cancelled"

\* C5: a terminal event is published only after the matching terminal status
\* has been written to the store.
C5_StatusStoredBeforeEvent ==
    /\ terminal_event.type = "complete" => stored = "completed"
    /\ terminal_event.type = "error" => stored \in {"failed", "cancelled"}

\* C6: after the complete event of a task whose completed record reached the
\* store, the persisted status is never running or paused.
C6_CompletedAfterCompleteEvent ==
    (terminal_event.type = "complete" /\ stored = "completed")
        => Status \notin {"running", "paused"}

\* C7: a record with status completed has progress 100 and a non-empty
\* training_history with strictly increasing epoch indices.
C7_CompletedRecord ==
    Status = "completed" =>
        /\ Has(job_status, "progress") /\ job_status.progress = 100
        /\ Hist(job_status) # << >>
        /\ StrictlyIncreasing(Hist(job_status))

\* C8: a status write that pauses the job (to paused) or resumes it (paused to
\* running) keeps every training_history entry of the persisted record.
C8_PauseResumeKeepsHistory ==
    [][(\/ job_status'.status = "paused"
        \/ job_status.status = "paused" /\ job_status'.status = "running")
         => IsPrefix(Hist(job_status), Hist(job_status'))]_vars

\* C9: a stop request that found a non-terminal status has revoked the task
\* when it goes on to write the cancelled status.
C9_StopRevokes ==
    \A c \in Clients :
        (cpc[c] = "stop_status" /\ job_data[c].status \in NonTerminal)
            => revoked

\* C10: when a stop request has returned while no worker had picked the task
\* up, the task is revoked, the persisted status is cancelled, the task has
\* not run and has written nothing, and there is no model artifact.
C10_StopBeforePickup ==
    (stop_ok /\ task \in {"queued", "discarded"}) =>
        /\ revoked
        /\ Status = "cancelled"
        /\ pc = "none"
        /\ stored = "none"
        /\ ~artifact

C10_Witness ==
    stop_ok /\ task = "discarded" /\ Status = "cancelled" /\ ~artifact


\* C11: a pause issued right after the submission, while the record still
\* says accepted, is not refused (so that the job can be paused, resumed and
\* run to completed).
C11_PauseAfterSubmission ==
    \A c \in Clients :
        cpc[c] = "pause_400" => job_data[c].status # "accepted"

\* C12: a create request refused for a missing dataset has submitted no task
\* and written no status record.
C12_MissingDatasetRejected ==
    create_pc = "rejected404" =>
        /\ task = "none"
        /\ pc = "none"
        /\ job_status = NoRec

C12_Witness ==
    create_pc = "rejected404" /\ \E c \in Clients : cpc[c] = "get_404"

\* C13: a create request refused because the queue did not take the task
\* has written no status record, and no task exists.
C13_QueueUnavailable ==
    create_pc = "rejected503_queue" =>
        /\ task = "none"
        /\ pc = "none"
        /\ job_status = NoRec

C13_Witness ==
    create_pc = "rejected503_queue" /\ \E c \in Clients : cpc[c] = "get_404"

TrainingErrors ==
    {ErrorOf(d) : d \in Datasets \ {"ok"}} \cup {"fit failed", "cannot save model"}

CancelErrors ==
    {"Training cancelled by user", "Training cancelled during pause"}

\* C14: a failing store or channel call never aborts the task: it enters its
\* except block only for a training error or an observed cancellation, a
\* task that is not revoked never takes a cancel exit, and a task past the
\* epoch loop has run all its epochs.
C14_StoreFailureNeverAborts ==
    /\ pc \in {"exc_status", "exc_pub", "raised"}
         => error_msg \in TrainingErrors \cup CancelErrors
    /\ error_msg \in CancelErrors => cancel_seen # "none"
    /\ (~revoked /\ ~job_cancel)
         => cancel_seen = "none" /\ pc \notin {"cancel_status", "cancel_pub"}
    /\ (pc \in {"save", "final_status", "final_pub", "done"}
        /\ cancel_seen = "none")
         => epoch = total_epochs /\ Len(training_history) = total_epochs

\* Every status write and every publish failed, and the task completed.
C14_Witness ==
    /\ pc = "done" /\ task = "succeeded" /\ artifact
    /\ Len(training_history) = total_epochs
    /\ job_status = NoRec /\ stored = "none"
    /\ terminal_event.type = "none"

\* C15: every raise enters the except block; from there the task writes the
\* failed record with the error message (or the write fails), then publishes
\* the error event, then the task fails with the exception; a failed task is
\* never run again.
C15_ExceptionHandling ==
    [][/\ error_msg' # error_msg => pc' = "exc_status"
       /\ (pc = "exc_status" /\ pc' # pc) =>
             /\ pc' \in {"exc_pub", "terminated"}
             /\ pc' = "exc_pub" =>
                   \/ /\ job_status' = FailedRec(error_msg)
                      /\ stored' = "failed"
                   \/ UNCHANGED <<job_status, stored>>
       /\ (pc = "exc_pub" /\ pc' # pc) =>
             /\ pc' \in {"raised", "terminated"}
             /\ pc' = "raised" =>
                   /\ task' = "failed"
                   /\ terminal_event' \in {Event("error", error_msg),
                                           terminal_event}
       /\ task = "failed" => task' = "failed" /\ pc' = "raised"]_vars

C15_Witness ==
    /\ task = "failed" /\ pc = "raised"
    /\ error_msg = "fit failed"
    /\ stored = "failed"
    /\ terminal_event = Event("error", error_msg)

ValidationErrors == {ErrorOf(d) : d \in Datasets \ {"ok"}}

\* C16: a job with an invalid dataset never reaches the fit, runs no epoch and
\* writes no artifact, and once its failed record is written and the task and
\* every request have ended, the persisted record is the failed record with
\* the error.
C16_InvalidDatasetEndsFailed ==
    error_msg \in ValidationErrors =>
        /\ total_epochs = 0 /\ epoch = 0
        /\ training_history = << >>
        /\ ~artifact
        /\ (Quiescent /\ task = "failed" /\ stored = "failed")
             => job_status = FailedRec(error_msg)

Proceeding ==
    {"pause_flag", "pause_status", "pause_pub",
     "resume_flag", "resume_status", "resume_pub"}

Refused == {"pause_400", "pause_404", "resume_400", "resume_404"}

\* C17: pause and resume go on only after reading status running or paused,
\* are answered 400 for any other status and 404 without a record, and a
\* refused request changes no flag, no record and publishes nothing.
C17_RefusedCalls ==
    /\ [](\A c \in Clients :
            /\ cpc[c] \in Proceeding
                 => job_data[c].status \in {"running", "paused"}
            /\ cpc[c] \in {"pause_400", "resume_400"}
                 => job_data[c].status \in {"accepted"} \cup Terminal
            /\ cpc[c] \in {"pause_404", "resume_404"}
                 => job_data[c] = NoRec)
    /\ [][\A c \in Clients :
            (cpc'[c] # cpc[c] /\ (cpc'[c] \in Refused \/ cpc[c] \in Refused))
                => UNCHANGED <<storeVars, chanVars, revoked>>]_vars

C17_Witness ==
    \E c \in Clients :
        /\ cpc[c] = "resume_400"
        /\ job_data[c].status = "completed"
        /\ ~job_pause

\* C18: when a pause request returns 200 the pause flag is set and the
\* persisted status is paused; when a resume request returns 200 the flag is
\* absent and the persisted status is running.
C18_PauseResumePostcondition ==
    [][\A c \in Clients :
         /\ (cpc[c] = "pause_pub" /\ cpc'[c] = "idle")
              => job_pause' /\ job_status'.status = "paused"
         /\ (cpc[c] = "resume_pub" /\ cpc'[c] = "idle")
              => ~job_pause' /\ job_status'.status = "running"]_vars

\* C19: a status query is answered with the record, with 404 or with 503,
\* and with nothing else.
C19_GetStatusAnswers ==
    \A c \in Clients : cpc[c] # "get_500"

\* C20: a stored status record always carries the one hour expiry.
C20_RecordHasExpiry ==
    job_status # NoRec => status_ttl


\* C22: between two consecutive persisted records with status running the
\* progress value does not decrease.
C22_ProgressMonotone ==
    [][(/\ job_status.status = "running" /\ Has(job_status, "progress")
        /\ job_status'.status = "running" /\ Has(job_status', "progress"))
         => job_status'.progress >= job_status.progress]_vars

\* C23: a step of a pause, resume or stop request leaves the persisted status
\* record unchanged.
C23_ControlKeepsStatus ==
    [][\A c \in Clients :
         cpc'[c] # cpc[c] => job_status' = job_status]_vars

EpochIndices(n) == [i \in 1..n |-> i]

\* C24: a persisted completed record carries exactly the entries 1 ..
\* total_epochs in its training_history, and a task waiting in handle_pause
\* inside the epoch loop holds exactly the entries of the epochs done.
C24_HistoryLength ==
    /\ Status = "completed" =>
          /\ Len(Hist(job_status)) = total_epochs
          /\ Hist(job_status) = EpochIndices(total_epochs)
    /\ (pc = "hp_wait" /\ hp_ret = "epoch") =>
          training_history = EpochIndices(epoch)

\* Completed with every epoch recorded while a resume request, which read the
\* record of a paused job, is still in flight.
C24_Witness ==
    /\ Status = "completed"
    /\ total_epochs = MaxEpochs
    /\ Len(Hist(job_status)) = MaxEpochs
    /\ \E c \in Clients : cpc[c] = "resume_flag" /\ job_data[c].status = "paused"


\* C25: in a session none of whose Redis calls failed, the first frame sent
\* is the connected acknowledgement and the second is the status frame.
C25_FirstFrames ==
    (gw_store_ok /\ Len(frames) >= 2) =>
        /\ frames[1] = Frame("connected", "")
        /\ frames[2] = Frame("status", job_status.status)

\* C26: a session that found no Redis client at connect time never subscribes
\* and never polls; it sends the one error frame, closes the connection and
\* returns.
C26_UnavailableAtConnect ==
    /\ [](gw_pc \in {"unavailable", "returned"} =>
             /\ ~subscribed
             /\ pending = << >>
             /\ ~gw_store_ok)
    /\ [](gw_pc = "returned" =>
             /\ frames = <<Frame("error", "")>>
             /\ ws_state = "closed")
    /\ [][/\ gw_pc = "unavailable" =>
                gw_pc' \in {"unavailable", "returned", "raised"}
          /\ gw_pc = "returned" => gw_pc' = "returned"]_vars

C26_Witness ==
    /\ gw_pc = "returned"
    /\ frames = <<Frame("error", "")>>
    /\ ws_state = "closed"

SessionStates ==
    {"send_connected", "send_status", "get_message", "forward", "idle",
     "sleep", "except", "finally_unsub"}

\* C27: the subscription exists only inside the session, the only way out of
\* the session is the unsubscribe followed by the close, a session that has
\* ended holds no subscription and no open connection, and after a send
\* failure or channel error the teardown runs to its end.
C27_Teardown ==
    /\ [](subscribed => gw_pc \in SessionStates)
    /\ [](gw_pc = "done" => ~subscribed /\ ws_state = "closed")
    /\ [][(gw_pc \in SessionStates /\ gw_pc' \notin SessionStates)
             => gw_pc' = "finally_close"]_vars
    /\ (gw_pc \in {"except", "finally_unsub"}) ~> (gw_pc = "done")

\* A session torn down after the client went away.
C27_Witness ==
    /\ gw_pc = "done"
    /\ ~ws_alive
    /\ Len(frames) >= 1 /\ frames[1] = Frame("connected", "")
    /\ ~subscribed
    /\ ws_state = "closed"

\* C28: a ping is sent only after a poll that returned no message and with
\* at least PingInterval seconds on the clock since last_ping, and in the
\* loop the time since last_ping never passes PingInterval.
C28_Ping ==
    /\ [][(/\ Len(frames') > Len(frames)
           /\ frames'[Len(frames')].type = "ping")
             => /\ polled = "none"
                /\ elapsed >= PingInterval
                /\ elapsed' = 0]_vars
    /\ [](gw_pc \in {"get_message", "forward", "idle", "sleep"}
             => elapsed <= PingInterval)

C28_Witness ==
    /\ gw_pc = "sleep"
    /\ Len(frames) >= 3
    /\ frames[Len(frames)].type = "ping"
    /\ elapsed = 0


C29_JobIsolation ==
    [][/\ \A k \in DOMAIN kv \cup DOMAIN kv' :
            k[2] # actor' =>
                /\ k \in DOMAIN kv <=> k \in DOMAIN kv'
                /\ k \in DOMAIN kv => kv'[k] = kv[k]
                /\ k \in expiring <=> k \in expiring'
       /\ \A j \in JobIds : j # actor' => inbox'[j] = inbox[j]]_vars

\* Two jobs with different ids, one stopped after a publish and one
\* completed, each with its own record.
C29_Witness ==
    /\ Len(issued) = 2
    /\ issued[1] # issued[2]
    /\ read_status(issued[1]).status = "cancelled"
    /\ read_status(issued[2]).status = "completed"
    /\ inbox[issued[1]] = 1
    /\ inbox[issued[2]] = 0

\* C30: the job ids returned by the successful create calls are pairwise
\* different.
C30_UniqueJobIds ==
    \A a, b \in 1..Len(issued) : a # b => issued[a] # issued[b]


InPauseWait == pc \in {"hp_wait", "hp_wait_cancel"}

C32_AcceptedWrittenFirst ==
    [][(job_status'.status = "accepted" /\ job_status' # job_status)
          => job_status = NoRec]_vars

\* C33: a persisted completed status implies the artifact, and a task that
\* failed, was terminated or observed a cancel has written no artifact.
C33_ArtifactOnlyOnCompletion ==
    /\ Status = "completed" => artifact
    /\ (task \in {"failed", "terminated"} \/ cancel_seen # "none")
          => ~artifact

\* C36: once a stop request on a non-terminal job has returned, a task in
\* the pause wait does not go on to resume.
C36_NoResumeAfterStop ==
    [][(stop_ok /\ InPauseWait /\ \A c \in Clients : cpc[c] = "idle")
          => pc' \notin {"hp_resume_status", "hp_wait_lost"}]_vars

\* C38: once the create request has returned status accepted, a status
\* record exists.
C38_RecordAfterCreate ==
    create_pc = "returned" => job_status # NoRec

\* C39: while the task is in the pause wait and no create or control request
\* is in progress, the persisted status is paused.
C39_PausedWhileWaiting ==
    (/\ InPauseWait
     /\ create_pc = "returned"
     /\ \A c \in Clients : cpc[c] = "idle")
        => Status = "paused"


\* C34: calculate_epochs returns a positive override as it is; without one
\* it returns 50 below 1000 rows, 20 from 1000 to 9999 and 10 from 10000 on,
\* and no larger size gets more epochs.
C34_CalculateEpochs ==
    ce_out # 0 =>
        LET s == ce_in.dataset_size
            u == ce_in.user_epochs
        IN  IF u.given /\ u.value > 0
            THEN ce_out = u.value
            ELSE /\ s < 1000 => ce_out = 50
                 /\ (s >= 1000 /\ s <= 9999) => ce_out = 20
                 /\ s >= 10000 => ce_out = 10
                 /\ \A s2 \in Sizes :
                       s2 >= s => calculate_epochs(s2, u) <= ce_out

\* A call at the first threshold with a zero override has returned.
C34_Witness ==
    /\ ce_in.dataset_size = 1000
    /\ ce_in.user_epochs = [given |-> TRUE, value |-> 0]
    /\ ce_out = 20


\* The data of the forwarded frames, in the order they were sent.
ForwardedEvents ==
    LET fs == SelectSeq(frames, LAMBDA f : f.type = "event")
    IN  [i \in 1..Len(fs) |-> fs[i].data]

\* The session is in its polling loop.
InLoop == gw_pc \in {"get_message", "forward", "idle", "sleep"}

\* C35: once a session is over and its client is still connected, so that
\* no send has failed, every event its subscription was handed has been
\* forwarded.
C35_AllForwarded ==
    (gw_pc = "done" /\ ws_alive) => Len(ForwardedEvents) = Len(heard)

\* C35 as amended: the forwarded events are, unchanged and in order, the
\* first events the subscription was handed, all of them published on the
\* channel of the session's job; while the session is in its loop every
\* event handed to it is forwarded, in hand or waiting, each once.
C35_ForwardedInOrder ==
    /\ Len(ForwardedEvents) <= Len(heard)
    /\ \A i \in 1..Len(ForwardedEvents) : ForwardedEvents[i] = heard[i].event
    /\ \A i \in 1..Len(heard) : heard[i].channel = SubChannel(GwJob)
    /\ InLoop =>
         /\ Len(heard) = Len(ForwardedEvents) + Len(pending)
                           + (IF gw_pc = "forward" THEN 1 ELSE 0)
         /\ \A i \in 1..Len(pending) :
               loads(pending[i].data)
                  = heard[Len(heard) - Len(pending) + i].event
         /\ gw_pc = "forward" =>
               loads(message.data) = heard[Len(ForwardedEvents) + 1].event

\* The two events the subscription was handed were forwarded, each once and
\* in the order of their publication.
C35_Witness ==
    /\ Len(heard) = 2
    /\ Len(ForwardedEvents) = 2
    /\ ForwardedEvents[1].epoch < ForwardedEvents[2].epoch
    /\ ws_alive

\* C37: once the session has read the status for the status frame and while
\* it is in its loop, it is subscribed, and every event published on the
\* job's channel after that read has been handed to its subscription.
C37_NoGap ==
    (snap_at >= 0 /\ InLoop) =>
        /\ subscribed
        /\ \A i \in (snap_at + 1)..Len(published) :
              published[i].channel = SubChannel(GwJob)
                 => \E k \in 1..Len(heard) : heard[k] = published[i]

\* An event published right after the status read was forwarded after the
\* status frame.
C37_Witness ==
    /\ snap_at >= 0
    /\ Len(published) > snap_at
    /\ published[snap_at + 1].channel = SubChannel(GwJob)
    /\ Len(frames) >= 3
    /\ frames[2].type = "status"
    /\ frames[3].type = "event"
    /\ frames[3].data = published[snap_at + 1].event

====
